---- MODULE Spec2Model ----
(***************************************************************************)
(* Model of the time tracker's core: TimeTrackerService (the polling loop  *)
(* and the activity-segmentation engine, src/core/tracker_service.py) and  *)
(* the activity_log table it appends to (src/core/data_store.py).          *)
(*                                                                         *)
(* Time is counted in ticks of 1/TicksPerSecond second, so that the        *)
(* truncation int(current_time - start) of the code is visible.  One       *)
(* service object runs run() once, as every caller in the repository does  *)
(* (cli/main_cli.py:53-54, gui/main_window.py:204-209).  A service run     *)
(* from the command line can be hit by KeyboardInterrupt between any two   *)
(* steps; a service run by the GUI's TrackerThread can have stop() called  *)
(* from the GUI thread between any two steps.                              *)
(*                                                                         *)
(* Spec      one service running run() once, with its clock and its store. *)
(* Scenario  the worked scenario of the specification, scripted.           *)
(* GuiSpec   MainWindow.toggle_tracking and the TrackerThreads it starts   *)
(*           (src/gui/main_window.py), each on its own service.            *)
(* StoreSpec the store on its own: init_db, log_activity and               *)
(*           get_activity_summary called in any order.                     *)
(***************************************************************************)
EXTENDS Integers, Sequences, FiniteSets, TLC

VARIABLES
    clock,                       \* time.time(), in ticks
    frontend,                    \* "cli" (main thread) or "gui" (TrackerThread)
    pc,                          \* position of run()
    phase,                       \* which try block of run() is executing
    running,                     \* self.running
    last_app_name,               \* self.last_app_name
    last_window_title,           \* self.last_window_title
    current_activity_start_time, \* self.current_activity_start_time
    ua_app,                      \* _update_activity: argument app_name
    ua_title,                    \* _update_activity: argument window_title
    current_time,                \* _update_activity: local current_time
    wake_at,                     \* earliest clock at which time.sleep returns
    activity_log,                \* rows of table activity_log, in id order
    obs,                         \* the observation returned last by the observer
    repeated,                    \* that observation equals the one before it
    polls,                       \* number of observer calls made by run()
    stop_called,                 \* stop() has been called
    interrupted,                 \* KeyboardInterrupt has been delivered
    loop_exit,                   \* what ended the while loop of run()
    segs,                        \* history: the segments the engine has opened
    db_dir,                      \* the directory of DATABASE_PATH exists
    tables,                      \* the tables of the database file
    call,                        \* the last call made to data_store, its result
    is_tracking,                 \* MainWindow.is_tracking
    tracker_service,             \* MainWindow.tracker_service (0: None)
    tracker_thread,              \* MainWindow.tracker_thread (0: None)
    gui_pc,                      \* position of the GUI thread in toggle_tracking
    services,                    \* the TimeTrackerService objects created so far
    threads,                     \* the TrackerThreads started so far
    writes,                      \* history: the thread behind each log_activity
    os_type,                     \* platform.system().lower(), as characters
    xlib_names,                  \* Xlib.display has the names line 167 reads
    mon_pc,                      \* position of get_active_window_info
    backend,                     \* the platform backend the call has entered
    display_bound,               \* linux backend: local name display is bound
    pending,                     \* the exception travelling in the backend
    mon_result,                  \* what the last call returned
    mon_calls                    \* number of calls of get_active_window_info

\* The state of one run() of one service, beside its clock and its store.
runVars == <<frontend, pc, phase, running, last_app_name, last_window_title,
             current_activity_start_time, ua_app, ua_title, current_time,
             wake_at, obs, repeated, polls, stop_called, interrupted,
             loop_exit, segs>>

\* The database beside the rows of activity_log.
storeVars == <<db_dir, tables, call>>

\* The main window and its threads.
guiVars == <<is_tracking, tracker_service, tracker_thread, gui_pc, services,
             threads, writes>>

\* The observer, activity_monitor.get_active_window_info.
monitorVars == <<os_type, xlib_names, mon_pc, backend, display_bound, pending,
                 mon_result, mon_calls>>

vars == <<clock, activity_log, runVars, storeVars, guiVars, monitorVars>>

(***************************************************************************)
(* Bounds of the model and parameters of the program.                      *)
(***************************************************************************)
\* Resolution of the model's clock: ticks per second.
TicksPerSecond == 2

\* Last clock value explored by Spec.
MaxClock == 6

\* Number of distinct sub-second phases at which a run may begin.
MaxStartClock == 2

\* check_interval in seconds, as given to TimeTrackerService(check_interval=...).
check_interval == 1

\* Python's None for a string field.
None == "<None>"

\* Python's None for current_activity_start_time (a float otherwise).
NoTime == -1

\* The observer has not been called yet.
NoObservation == <<"<no observation>", "<no observation>">>

\* What the observer can return: a focused window, the same application with
\* another title, an application without a title (the observer's contract
\* allows a null title beside a resolved name), and the total failure
\* (None, None).
Observations ==
    { <<"Editor", "file.txt">>, <<"Editor", "notes.txt">>, <<"Editor", None>>,
      <<None, None>> }

\* Values of platform.system().lower(), as sequences of characters (the
\* dispatcher tests them for substrings): Windows, Darwin, Linux, and hosts
\* that are none of these (FreeBSD, Jython's Java, Cygwin's CYGWIN_NT-10.0,
\* SunOS, and the empty string of a host platform cannot name).
OsWindows == <<"w", "i", "n", "d", "o", "w", "s">>
OsDarwin == <<"d", "a", "r", "w", "i", "n">>
OsLinux == <<"l", "i", "n", "u", "x">>
OsFreeBsd == <<"f", "r", "e", "e", "b", "s", "d">>
OsJava == <<"j", "a", "v", "a">>
OsCygwin ==
    <<"c", "y", "g", "w", "i", "n", "_", "n", "t", "-", "1", "0", ".", "0">>
OsSunOs == <<"s", "u", "n", "o", "s">>

OsIdentities ==
    { OsWindows, OsDarwin, OsLinux, OsFreeBsd, OsJava, OsCygwin, OsSunOs, <<>> }

\* Calls of get_active_window_info made in one exploration.
MaxCalls == 2

\* A row left in the table by an earlier session (data_store.py's own test).
LegacyRow ==
    [id |-> 1, timestamp |-> 0, app_name |-> "TestApp",
     window_title |-> "Test Window - data_store", duration_seconds |-> 60,
     activity_type |-> "testing"]

InitialLogs == { <<>>, <<LegacyRow>> }

\* The tables init_db creates.
AllTables == {"activity_log", "app_categories"}

\* date=None (or the empty string): get_activity_summary applies no filter.
NoDate == [year |-> 0, month |-> 0, day |-> 0]

\* No call has been made to data_store yet.
NoCall ==
    [op |-> "none", limit |-> 0, date |-> NoDate, raised |-> FALSE,
     selected |-> <<>>, result |-> <<>>]

(***************************************************************************)
(* Pure helpers.                                                           *)
(***************************************************************************)
\* Python's truth value of self.current_activity_start_time: None and 0.0 are false.
Truthy(t) == t # NoTime /\ t # 0

\* int(later - earlier) for times in ticks: truncation towards zero, in seconds.
IntSeconds(later, earlier) ==
    IF later >= earlier
    THEN (later - earlier) \div TicksPerSecond
    ELSE -((earlier - later) \div TicksPerSecond)

\* "duration > 0" with a mutation: a zero duration is logged too.
DurationIsMeaningful_Mutant(duration) == duration >= 0

\* "if duration > 0": the segment is worth a row.
DurationIsMeaningful(duration) == duration > 0

\* A mutation of the AUTOINCREMENT key: every insert asks for id 1.
NextId_Mutant(log) == 1

\* AUTOINCREMENT: one more than the largest id of the table.
NextId(log) == IF log = <<>> THEN 1 ELSE log[Len(log)].id + 1

\* CURRENT_TIMESTAMP has a resolution of one second.
CurrentTimestamp(now) == now \div TicksPerSecond

\* data_store.log_activity: one INSERT; activity_type is left to its default.
log_activity(log, app_name, window_title, duration_seconds, now) ==
    Append(log, [id |-> NextId(log), timestamp |-> CurrentTimestamp(now),
                 app_name |-> app_name, window_title |-> window_title,
                 duration_seconds |-> duration_seconds,
                 activity_type |-> "general"])

\* Lines 52-53 with a mutation: the value is stored as it is handed over.
OrDefault_Mutant(x, default) == x

\* "x if x is not None else default"
OrDefault(x, default) == IF x # None THEN x ELSE default

\* The rows written by the engine (all but the legacy rows).
EngineRows == SelectSeq(activity_log, LAMBDA r : r.activity_type = "general")

(***************************************************************************)
(* History of segments: one record per assignment of                       *)
(* current_activity_start_time, with the time it was closed (by the next   *)
(* transition or by the end of run()), the number of rows written for it   *)
(* and the seconds these rows carry, and the app_name it was opened with   *)
(* (lines 52-54: last_app_name has been assigned when the start is).       *)
(***************************************************************************)
SegOpen(s, start) ==
    Append(s, [start |-> start, closed |-> NoTime, rows |-> 0, logged |-> 0,
               app |-> last_app_name])

SegClose(s, at) ==
    IF s # <<>> /\ s[Len(s)].closed = NoTime
    THEN [s EXCEPT ![Len(s)].closed = at]
    ELSE s

SegRow(s, duration_seconds) ==
    IF s # <<>>
    THEN [s EXCEPT ![Len(s)].rows = @ + 1,
                   ![Len(s)].logged = @ + duration_seconds]
    ELSE s

Terminated == pc \in {"returned", "raised"}

(***************************************************************************)
(* Construction: TimeTrackerService.__init__ on a store that init_db has   *)
(* prepared.                                                               *)
(***************************************************************************)
\* init_db has been called (by __init__, line 30): the schema is there.
StoreReady ==
    /\ db_dir = TRUE
    /\ tables = AllTables
    /\ call = NoCall

\* MainWindow.__init__: no service, no thread, not tracking.
GuiConstructed ==
    /\ is_tracking = FALSE
    /\ tracker_service = 0
    /\ tracker_thread = 0
    /\ gui_pc = "idle"
    /\ services = <<>>
    /\ threads = <<>>
    /\ writes = <<>>

\* activity_monitor is imported and get_active_window_info has not been
\* called; the engine's specifications abstract its results as Observations.
MonitorIdle ==
    /\ os_type = OsLinux
    /\ xlib_names = TRUE
    /\ mon_pc = "idle"
    /\ backend = "none"
    /\ display_bound = FALSE
    /\ pending = "none"
    /\ mon_result = NoObservation
    /\ mon_calls = 0

ServiceConstructed ==
    /\ clock \in 1..MaxStartClock
    /\ frontend \in {"cli", "gui"}
    /\ pc = "start"
    /\ phase = "init"
    /\ running = FALSE
    /\ last_app_name = None
    /\ last_window_title = None
    /\ current_activity_start_time = NoTime
    /\ ua_app = None
    /\ ua_title = None
    /\ current_time = NoTime
    /\ wake_at = 0
    /\ activity_log \in InitialLogs
    /\ obs = NoObservation
    /\ repeated = FALSE
    /\ polls = 0
    /\ stop_called = FALSE
    /\ interrupted = FALSE
    /\ loop_exit = "none"
    /\ segs = <<>>

Init ==
    /\ ServiceConstructed
    /\ MonitorIdle
    /\ StoreReady
    /\ GuiConstructed

(***************************************************************************)
(* Where an exception raised at the current position goes.                 *)
(*   try 74-84:   Exception -> handler 82-84; KeyboardInterrupt escapes.   *)
(*   handler 82-84 and finally 103-114: everything escapes run().          *)
(*   try 86-102:  both are caught and the finally block runs.              *)
(* The frame of _update_activity, if there is one, is left: its arguments  *)
(* and its local current_time are gone.                                    *)
(***************************************************************************)
Raise(kind, cause) ==
    /\ current_time' = NoTime
    /\ IF phase = "loop"
       THEN /\ pc' = "finally"
            /\ phase' = "finally"
            /\ loop_exit' = cause
            /\ ua_app' = None
            /\ ua_title' = None
            /\ UNCHANGED segs
       ELSE IF phase = "init" /\ kind = "Exception"
       THEN /\ pc' = "ua_time"
            /\ phase' = "init_except"
            /\ ua_app' = "Startup"
            /\ ua_title' = "Initialization error"
            /\ UNCHANGED <<loop_exit, segs>>
       ELSE /\ pc' = "raised"
            /\ segs' = SegClose(segs, clock)
            /\ ua_app' = None
            /\ ua_title' = None
            /\ UNCHANGED <<phase, loop_exit>>

(***************************************************************************)
(* run(), lines 70-84: the seeding observation.                            *)
(***************************************************************************)
Start ==
    /\ UNCHANGED <<storeVars, guiVars, monitorVars>>
    /\ pc = "start"
    /\ running' = TRUE
    /\ pc' = "init_observe"
    /\ UNCHANGED <<clock, frontend, phase, last_app_name, last_window_title,
                   current_activity_start_time, ua_app, ua_title, current_time,
                   wake_at, activity_log, obs, repeated, polls, stop_called,
                   interrupted, loop_exit, segs>>

\* Lines 76-81 with a mutation: the test of line 76 is missing.
SeedIdentity_Mutant(o) == o

\* Lines 76-81: what the seeding call of _update_activity is given.
SeedIdentity(o) ==
    IF o[1] # None THEN o ELSE <<"Startup", "Initializing service">>

ObserveInit(o) ==
    /\ UNCHANGED <<storeVars, guiVars, monitorVars>>
    /\ pc = "init_observe"
    /\ obs' = o
    /\ repeated' = (o = obs)
    /\ polls' = polls + 1
    /\ ua_app' = SeedIdentity(o)[1]
    /\ ua_title' = SeedIdentity(o)[2]
    /\ pc' = "ua_time"
    /\ UNCHANGED <<clock, frontend, phase, running, last_app_name,
                   last_window_title, current_activity_start_time, current_time,
                   wake_at, activity_log, stop_called, interrupted, loop_exit,
                   segs>>

ObserveInitRaises ==
    /\ UNCHANGED <<storeVars, guiVars, monitorVars>>
    /\ pc = "init_observe"
    /\ polls' = polls + 1
    /\ Raise("Exception", "observer_error")
    /\ UNCHANGED <<clock, frontend, running, last_app_name, last_window_title,
                   current_activity_start_time, wake_at,
                   activity_log, obs, repeated, stop_called, interrupted>>

(***************************************************************************)
(* _update_activity(app_name, window_title), lines 39-54.                  *)
(***************************************************************************)
UaTime ==
    /\ UNCHANGED <<storeVars, guiVars, monitorVars>>
    /\ pc = "ua_time"
    /\ current_time' = clock
    /\ pc' = "ua_log"
    /\ UNCHANGED <<clock, frontend, phase, running, last_app_name,
                   last_window_title, current_activity_start_time, ua_app,
                   ua_title, wake_at, activity_log, obs, repeated, polls,
                   stop_called, interrupted, loop_exit, segs>>

\* Lines 42-44: there is a previous activity and its duration is worth a row.
PreviousIsDue ==
    /\ Truthy(current_activity_start_time)
    /\ last_app_name # None
    /\ DurationIsMeaningful(IntSeconds(current_time, current_activity_start_time))

UaLog ==
    /\ UNCHANGED <<storeVars, guiVars, monitorVars>>
    /\ pc = "ua_log"
    /\ IF PreviousIsDue
       THEN /\ activity_log' =
                 log_activity(activity_log, last_app_name, last_window_title,
                     IntSeconds(current_time, current_activity_start_time), clock)
            /\ segs' = SegRow(segs,
                 IntSeconds(current_time, current_activity_start_time))
       ELSE UNCHANGED <<activity_log, segs>>
    /\ pc' = "ua_set_app"
    /\ UNCHANGED <<clock, frontend, phase, running, last_app_name,
                   last_window_title, current_activity_start_time, ua_app,
                   ua_title, current_time, wake_at, obs, repeated, polls,
                   stop_called, interrupted, loop_exit>>

\* log_activity raises (sqlite3 error): lines 52-54 are not executed.
UaLogFails ==
    /\ UNCHANGED <<storeVars, guiVars, monitorVars>>
    /\ pc = "ua_log"
    /\ PreviousIsDue
    /\ Raise("Exception", "store_error")
    /\ UNCHANGED <<clock, frontend, running, last_app_name, last_window_title,
                   current_activity_start_time, wake_at,
                   activity_log, obs, repeated, polls, stop_called, interrupted>>

UaSetApp ==
    /\ UNCHANGED <<storeVars, guiVars, monitorVars>>
    /\ pc = "ua_set_app"
    /\ last_app_name' = OrDefault(ua_app, "UnknownApp")
    /\ pc' = "ua_set_title"
    /\ UNCHANGED <<clock, frontend, phase, running, last_window_title,
                   current_activity_start_time, ua_app, ua_title, current_time,
                   wake_at, activity_log, obs, repeated, polls, stop_called,
                   interrupted, loop_exit, segs>>

UaSetTitle ==
    /\ UNCHANGED <<storeVars, guiVars, monitorVars>>
    /\ pc = "ua_set_title"
    /\ last_window_title' = OrDefault(ua_title, "UnknownTitle")
    /\ pc' = "ua_set_start"
    /\ UNCHANGED <<clock, frontend, phase, running, last_app_name,
                   current_activity_start_time, ua_app, ua_title, current_time,
                   wake_at, activity_log, obs, repeated, polls, stop_called,
                   interrupted, loop_exit, segs>>

\* Line 54 with a mutation: the clock is read again for the new segment.
SegmentStart_Mutant(read_at_39, now) == now

\* Line 54: the new segment starts at the reading of line 39, the one the
\* duration of the previous segment was computed with.
SegmentStart(read_at_39, now) == read_at_39

\* Line 54, and the return (the frame is left): to the while test after the
\* seeding call, to time.sleep(check_interval) after a call made by the loop.
UaSetStart ==
    /\ UNCHANGED <<storeVars, guiVars, monitorVars>>
    /\ pc = "ua_set_start"
    /\ current_activity_start_time' = SegmentStart(current_time, clock)
    /\ segs' = SegOpen(SegClose(segs, current_time),
                       current_activity_start_time')
    /\ IF phase = "loop"
       THEN pc' = "sleep" /\ wake_at' = clock + check_interval * TicksPerSecond
       ELSE pc' = "loop_test" /\ UNCHANGED wake_at
    /\ phase' = "loop"
    /\ ua_app' = None
    /\ ua_title' = None
    /\ current_time' = NoTime
    /\ UNCHANGED <<clock, frontend, running, last_app_name, last_window_title,
                   activity_log, obs, repeated, polls, stop_called, interrupted,
                   loop_exit>>

(***************************************************************************)
(* run(), lines 86-98: the polling loop.                                   *)
(***************************************************************************)
LoopTest ==
    /\ UNCHANGED <<storeVars, guiVars, monitorVars>>
    /\ pc = "loop_test"
    /\ IF running
       THEN pc' = "loop_observe" /\ UNCHANGED <<phase, loop_exit>>
       ELSE pc' = "finally" /\ phase' = "finally" /\ loop_exit' = "stop"
    /\ UNCHANGED <<clock, frontend, running, last_app_name, last_window_title,
                   current_activity_start_time, ua_app, ua_title, current_time,
                   wake_at, activity_log, obs, repeated, polls, stop_called,
                   interrupted, segs>>

\* _handle_no_window_info with a mutation: the guard of line 62 is missing.
NeedsSentinel_Mutant(last) == TRUE

\* Line 62 with another mutation: the sentinel segment is never opened.
NeedsSentinel_Never(last) == FALSE

\* _handle_no_window_info, line 62: "Avoid repeatedly logging this state".
NeedsSentinel(last) == last # "Unknown/Error"

\* Line 93 with a mutation: every observation counts as a change.
ActivityChanged_Mutant(o) == TRUE

\* Line 93: the observation differs from the open segment.
ActivityChanged(o) == o[1] # last_app_name \/ o[2] # last_window_title

LoopObserve(o) ==
    /\ UNCHANGED <<storeVars, guiVars, monitorVars>>
    /\ pc = "loop_observe"
    /\ obs' = o
    /\ repeated' = (o = obs)
    /\ polls' = polls + 1
    /\ IF o[1] = None
       THEN IF NeedsSentinel(last_app_name)
            THEN /\ ua_app' = "Unknown/Error"
                 /\ ua_title' = "Could not retrieve window info"
                 /\ pc' = "ua_time"
                 /\ UNCHANGED wake_at
            ELSE /\ pc' = "sleep"
                 /\ wake_at' = clock + check_interval * TicksPerSecond
                 /\ UNCHANGED <<ua_app, ua_title>>
       ELSE IF ActivityChanged(o)
            THEN /\ ua_app' = o[1]
                 /\ ua_title' = o[2]
                 /\ pc' = "ua_time"
                 /\ UNCHANGED wake_at
            ELSE /\ pc' = "sleep"
                 /\ wake_at' = clock + check_interval * TicksPerSecond
                 /\ UNCHANGED <<ua_app, ua_title>>
    /\ UNCHANGED <<clock, frontend, phase, running, last_app_name,
                   last_window_title, current_activity_start_time, current_time,
                   activity_log, stop_called, interrupted, loop_exit, segs>>

LoopObserveRaises ==
    /\ UNCHANGED <<storeVars, guiVars, monitorVars>>
    /\ pc = "loop_observe"
    /\ polls' = polls + 1
    /\ Raise("Exception", "observer_error")
    /\ UNCHANGED <<clock, frontend, running, last_app_name, last_window_title,
                   current_activity_start_time, wake_at,
                   activity_log, obs, repeated, stop_called, interrupted>>

\* time.sleep(check_interval) returns, not before the interval has passed.
Wake ==
    /\ UNCHANGED <<storeVars, guiVars, monitorVars>>
    /\ pc = "sleep"
    /\ clock >= wake_at
    /\ pc' = "loop_test"
    /\ UNCHANGED <<clock, frontend, phase, running, last_app_name,
                   last_window_title, current_activity_start_time, ua_app,
                   ua_title, current_time, wake_at, activity_log, obs, repeated,
                   polls, stop_called, interrupted, loop_exit, segs>>

(***************************************************************************)
(* run(), lines 103-114: the finally block.                                *)
(***************************************************************************)
\* Lines 105-107: the final activity is flushed.
FinalIsDue ==
    /\ running
    /\ Truthy(current_activity_start_time)
    /\ last_app_name # None
    /\ DurationIsMeaningful(IntSeconds(clock, current_activity_start_time))

Finally ==
    /\ UNCHANGED <<storeVars, guiVars, monitorVars>>
    /\ pc = "finally"
    /\ IF FinalIsDue
       THEN /\ activity_log' =
                 log_activity(activity_log, last_app_name, last_window_title,
                     IntSeconds(clock, current_activity_start_time), clock)
            /\ segs' = SegRow(SegClose(segs, clock),
                 IntSeconds(clock, current_activity_start_time))
       ELSE /\ segs' = SegClose(segs, clock)
            /\ UNCHANGED activity_log
    /\ pc' = "finally_stop"
    /\ UNCHANGED <<clock, frontend, phase, running, last_app_name,
                   last_window_title, current_activity_start_time, ua_app,
                   ua_title, current_time, wake_at, obs, repeated, polls,
                   stop_called, interrupted, loop_exit>>

\* log_activity raises at line 112: line 113 is skipped, the error leaves run().
FinallyLogFails ==
    /\ UNCHANGED <<storeVars, guiVars, monitorVars>>
    /\ pc = "finally"
    /\ FinalIsDue
    /\ Raise("Exception", "store_error")
    /\ UNCHANGED <<clock, frontend, running, last_app_name, last_window_title,
                   current_activity_start_time, wake_at,
                   activity_log, obs, repeated, polls, stop_called, interrupted>>

\* Line 113, and the return of run().
FinallyStop ==
    /\ UNCHANGED <<storeVars, guiVars, monitorVars>>
    /\ pc = "finally_stop"
    /\ running' = FALSE
    /\ pc' = "returned"
    /\ UNCHANGED <<clock, frontend, phase, last_app_name, last_window_title,
                   current_activity_start_time, ua_app, ua_title, current_time,
                   wake_at, activity_log, obs, repeated, polls, stop_called,
                   interrupted, loop_exit, segs>>

(***************************************************************************)
(* The environment: stop() from the GUI thread, Ctrl+C, the passing of     *)
(* time.                                                                   *)
(***************************************************************************)
\* TimeTrackerService.stop(), lines 116-119, called by TrackerThread.stop().
Stop ==
    /\ UNCHANGED <<storeVars, guiVars, monitorVars>>
    /\ frontend = "gui"
    /\ ~stop_called
    /\ stop_called' = TRUE
    /\ running' = FALSE
    /\ UNCHANGED <<clock, frontend, pc, phase, last_app_name, last_window_title,
                   current_activity_start_time, ua_app, ua_title, current_time,
                   wake_at, activity_log, obs, repeated, polls, interrupted,
                   loop_exit, segs>>

\* KeyboardInterrupt is raised in the main thread between two steps of run().
Interrupt ==
    /\ UNCHANGED <<storeVars, guiVars, monitorVars>>
    /\ frontend = "cli"
    /\ ~interrupted
    /\ pc \notin {"start", "returned", "raised"}
    /\ interrupted' = TRUE
    /\ Raise("KeyboardInterrupt", "KeyboardInterrupt")
    /\ UNCHANGED <<clock, frontend, running, last_app_name, last_window_title,
                   current_activity_start_time, wake_at,
                   activity_log, obs, repeated, polls, stop_called>>

Tick(limit) ==
    /\ UNCHANGED <<storeVars, guiVars, monitorVars>>
    /\ clock < limit
    /\ ~Terminated
    /\ clock' = clock + 1
    /\ UNCHANGED <<frontend, pc, phase, running, last_app_name,
                   last_window_title, current_activity_start_time, ua_app,
                   ua_title, current_time, wake_at, activity_log, obs, repeated,
                   polls, stop_called, interrupted, loop_exit, segs>>

Next ==
    \/ Start
    \/ \E o \in Observations : ObserveInit(o)
    \/ ObserveInitRaises
    \/ UaTime
    \/ UaLog
    \/ UaLogFails
    \/ UaSetApp
    \/ UaSetTitle
    \/ UaSetStart
    \/ LoopTest
    \/ \E o \in Observations : LoopObserve(o)
    \/ LoopObserveRaises
    \/ Wake
    \/ Finally
    \/ FinallyLogFails
    \/ FinallyStop
    \/ Stop
    \/ Interrupt
    \/ Tick(MaxClock)

Spec == Init /\ [][Next]_vars

(***************************************************************************)
(* The scenario of the specification's section 8, as a test would drive    *)
(* it with a scripted observer and clock: observation k is made at         *)
(* t0 + ScenarioTimes[k] seconds, each sleep ends at the next scripted     *)
(* instant, and stop() is called at t0 + ScenarioTimes[4] seconds.         *)
(***************************************************************************)
ScenarioObservations ==
    << <<"Editor", "file.txt">>, <<"Editor", "file.txt">>, <<"Browser", "tab">> >>

ScenarioTimes == <<0, 5, 12, 20>>

\* t0: the clock of the seeding observation.
ScenarioStart == IF segs = <<>> THEN clock ELSE segs[1].start

\* The next scripted instant, in ticks.
ScenarioDue ==
    ScenarioStart + ScenarioTimes[polls + 1] * TicksPerSecond

ScenarioInit ==
    /\ Init
    /\ frontend = "gui"
    /\ activity_log = <<>>

ScenarioNext ==
    \/ Start
    \/ ObserveInit(ScenarioObservations[1])
    \/ UaTime
    \/ UaLog
    \/ UaSetApp
    \/ UaSetTitle
    \/ UaSetStart
    \/ LoopTest
    \/ /\ polls < Len(ScenarioObservations)
       /\ clock = ScenarioDue
       /\ LoopObserve(ScenarioObservations[polls + 1])
    \/ /\ polls <= Len(ScenarioObservations)
       /\ clock = ScenarioDue
       /\ polls = Len(ScenarioObservations) => stop_called
       /\ Wake
    \/ Finally
    \/ FinallyStop
    \/ /\ polls = Len(ScenarioObservations)
       /\ pc = "sleep"
       /\ clock = ScenarioDue
       /\ Stop
    \/ /\ pc \in {"sleep", "loop_observe"}
       /\ polls <= Len(ScenarioObservations)
       /\ Tick(ScenarioDue)

Scenario == ScenarioInit /\ [][ScenarioNext]_vars

\* The rows of the table as (app_name, window_title, duration_seconds).
RowsWritten ==
    [i \in 1..Len(activity_log) |->
        <<activity_log[i].app_name, activity_log[i].window_title,
          activity_log[i].duration_seconds>>]

(***************************************************************************)
(* The store on its own (src/core/data_store.py).  A timestamp is a number *)
(* of seconds since EpochDate 00:00:00 UTC, the instant of clock 0; SQLite *)
(* keeps it as the text 'YYYY-MM-DD HH:MM:SS' of that instant, and its     *)
(* date() and datetime() functions do the calendar arithmetic below.       *)
(***************************************************************************)
\* Most rows StoreSpec lets the table hold.
MaxRows == 3

\* Largest limit StoreSpec passes to get_activity_summary.
MaxLimit == 2

\* The calendar day on which the clock reads 0.
EpochDate == [year |-> 2024, month |-> 2, day |-> 28]

IsLeapYear(y) == (y % 4 = 0 /\ y % 100 # 0) \/ y % 400 = 0

DaysInMonth(y, m) ==
    IF m = 2 THEN (IF IsLeapYear(y) THEN 29 ELSE 28)
    ELSE IF m \in {4, 6, 9, 11} THEN 30 ELSE 31

NextDay(d) ==
    IF d.day < DaysInMonth(d.year, d.month)
    THEN [d EXCEPT !.day = @ + 1]
    ELSE IF d.month < 12
    THEN [year |-> d.year, month |-> d.month + 1, day |-> 1]
    ELSE [year |-> d.year + 1, month |-> 1, day |-> 1]

RECURSIVE AddDays(_, _)
AddDays(d, n) == IF n = 0 THEN d ELSE AddDays(NextDay(d), n - 1)

\* SQLite's date(t): the calendar day of an instant.
DateOfSeconds(sec) == AddDays(EpochDate, sec \div (24 * 60 * 60))

\* An instant given as a day after EpochDate and a time of that day.
At(day, hh, mm, ss) == day * (24 * 60 * 60) + hh * (60 * 60) + mm * 60 + ss

\* The instants at which StoreSpec lets rows be recorded: around 16:00 UTC of
\* 2024-02-29 and at 16:00 UTC of 2024-03-01, where the day of UTC+8 changes.
StoreInstants ==
    { At(1, 15, 59, 59), At(1, 16, 0, 0), At(1, 16, 30, 0), At(2, 16, 0, 0) }

\* The values of the date argument StoreSpec passes ('YYYY-MM-DD').
QueryDates ==
    { [year |-> 2024, month |-> 2, day |-> 29],
      [year |-> 2024, month |-> 3, day |-> 1],
      [year |-> 2024, month |-> 3, day |-> 2] }

\* What StoreSpec gives log_activity: (app_name, window_title, duration_seconds).
StoreRowInputs == { <<"Editor", "file.txt", 1>> }

\* Line 68 with a mutation: the stored timestamp is emitted as it is.
EmittedTimestamp_Mutant(ts) == ts

\* Line 68: SELECT datetime(timestamp, '+8 hours') as timestamp.
EmittedTimestamp(ts) == ts + 8 * (60 * 60)

\* Line 84 with a mutation: the filter compares the day of the stored timestamp.
FilterDate_Mutant(ts) == DateOfSeconds(ts)

\* Line 84: date(datetime(timestamp, '+8 hours')).
FilterDate(ts) == DateOfSeconds(ts + 8 * (60 * 60))

\* Line 90 with a mutation: ORDER BY timestamp ASC.
ComesBefore_Mutant(a, b) == a <= b

\* Line 90: ORDER BY timestamp DESC lets a row of timestamp a precede one of
\* timestamp b.  The column sorted is the emitted one (the alias).
ComesBefore(a, b) == a >= b

\* Lines 76-86 with a mutation: the WHERE clause is missing.
Matching_Mutant(log, date) == log

\* Lines 76-86: the rows the query selects; "if date:" is false for no date.
Matching(log, date) ==
    SelectSeq(log, LAMBDA r : date = NoDate \/ FilterDate(r.timestamp) = date)

\* The orders in which ORDER BY may deliver the rows m: any arrangement that
\* respects the sort key; rows of equal key come in an order SQLite chooses.
RECURSIVE Arrangements(_, _)
Arrangements(m, S) ==
    IF S = {} THEN { <<>> }
    ELSE UNION { { <<i>> \o t : t \in Arrangements(m, S \ {i}) } :
                 i \in { i \in S : \A j \in S :
                            ComesBefore(EmittedTimestamp(m[i].timestamp),
                                        EmittedTimestamp(m[j].timestamp)) } }

Orders(m) == Arrangements(m, 1..Len(m))

\* Line 91, LIMIT ?: the number of rows delivered out of n.
LimitRows(n, limit) == IF limit >= 0 /\ limit < n THEN limit ELSE n

\* Lines 67-71: the columns of one row of the result.
SummaryRow(r) ==
    [timestamp |-> EmittedTimestamp(r.timestamp), app_name |-> r.app_name,
     window_title |-> r.window_title, duration_seconds |-> r.duration_seconds,
     activity_type |-> r.activity_type]

\* CREATE TABLE with a mutation: the table is created anew, empty.
RowsAfterCreate_Mutant(exists, rows) == <<>>

\* CREATE TABLE IF NOT EXISTS: the rows of the table after the statement.
RowsAfterCreate(exists, rows) == IF exists THEN rows ELSE <<>>

\* sqlite3.connect and the statement succeed: the file can be opened and the
\* table is there.
CanUse(table) == db_dir /\ table \in tables

\* data_store.init_db, lines 12-39.
InitDb ==
    /\ db_dir' = TRUE
    /\ tables' = tables \cup AllTables
    /\ activity_log' = RowsAfterCreate("activity_log" \in tables, activity_log)
    /\ call' = [NoCall EXCEPT !.op = "init_db"]
    /\ UNCHANGED <<clock, runVars, monitorVars, guiVars>>

\* data_store.log_activity, lines 41-50, called by any client of the store.
LogActivity(app_name, window_title, duration_seconds) ==
    /\ Len(activity_log) < MaxRows
    /\ IF CanUse("activity_log")
       THEN /\ activity_log' = log_activity(activity_log, app_name,
                                   window_title, duration_seconds, clock)
            /\ call' = [NoCall EXCEPT !.op = "log_activity"]
       ELSE /\ call' = [NoCall EXCEPT !.op = "log_activity", !.raised = TRUE]
            /\ UNCHANGED activity_log
    /\ UNCHANGED <<clock, db_dir, tables, runVars, monitorVars, guiVars>>

\* Lines 61-97: what the query can return, each result with the ids of the
\* rows it was made of.
Summaries(log, limit, date) ==
    LET m == Matching(log, date)
        k == LimitRows(Len(m), limit)
    IN  { [selected |-> [i \in 1..k |-> m[p[i]].id],
           result |-> [i \in 1..k |-> SummaryRow(m[p[i]])]] : p \in Orders(m) }

\* data_store.get_activity_summary(limit, date), lines 52-99.
GetActivitySummary(limit, date) ==
    /\ IF CanUse("activity_log")
       THEN \E s \in Summaries(activity_log, limit, date) :
                call' = [op |-> "get_activity_summary", limit |-> limit,
                         date |-> date, raised |-> FALSE,
                         selected |-> s.selected, result |-> s.result]
       ELSE call' = [NoCall EXCEPT !.op = "get_activity_summary",
                                   !.limit = limit, !.date = date,
                                   !.raised = TRUE]
    /\ UNCHANGED <<clock, activity_log, db_dir, tables, runVars,
                   monitorVars, guiVars>>

\* Time passes between two calls.
AdvanceTo(t) ==
    /\ t * TicksPerSecond > clock
    /\ clock' = t * TicksPerSecond
    /\ UNCHANGED <<activity_log, storeVars, runVars, monitorVars, guiVars>>

\* A database file in any state init_db can meet, and no call made yet.
StoreInit ==
    /\ ServiceConstructed
    /\ MonitorIdle
    /\ GuiConstructed
    /\ frontend = "cli"
    /\ clock = 1
    /\ db_dir \in BOOLEAN
    /\ tables \in SUBSET AllTables
    /\ ~db_dir => tables = {}
    /\ "activity_log" \notin tables => activity_log = <<>>
    /\ call = NoCall

StoreNext ==
    \/ InitDb
    \/ \E in \in StoreRowInputs : LogActivity(in[1], in[2], in[3])
    \/ \E limit \in 0..MaxLimit, date \in QueryDates \cup {NoDate} :
        GetActivitySummary(limit, date)
    \/ \E t \in StoreInstants : AdvanceTo(t)

StoreSpec == StoreInit /\ [][StoreNext]_vars

\* The row of the table with the given id.
RowOfId(id) == CHOOSE r \in {activity_log[i] : i \in 1..Len(activity_log)} : r.id = id

\* The last call was a query that returned.
Returned == call.op = "get_activity_summary" /\ ~call.raised

(***************************************************************************)
(* The main window (src/gui/main_window.py): toggle_tracking starts a      *)
(* TrackerThread on a TimeTrackerService and stops it.  Threads run        *)
(* concurrently, so each thread's run() is followed here at the grain of   *)
(* its reads and writes of self.running and of its log_activity calls;     *)
(* what is observed and whether a row is due is what Spec models, and      *)
(* every outcome of it is allowed here.                                    *)
(***************************************************************************)
\* Most times GuiSpec lets tracking be started.
MaxStarts == 2

\* Most log_activity calls GuiSpec follows.
MaxWrites == 1

\* Line 204 with a mutation: a service left by an earlier start is used again.
ServiceForStart_Mutant(current, created) ==
    IF current # 0 THEN current ELSE created + 1

\* Line 204: every start constructs a new TimeTrackerService.
ServiceForStart(current, created) == created + 1

\* toggle_tracking, lines 200-224: the branch that starts tracking.
ToggleStart ==
    /\ gui_pc = "idle"
    /\ ~is_tracking
    /\ Len(threads) < MaxStarts
    /\ tracker_service' = ServiceForStart(tracker_service, Len(services))
    /\ services' = IF tracker_service' > Len(services)
                   THEN Append(services, [running |-> FALSE, stopped |-> FALSE])
                   ELSE services
    /\ threads' = Append(threads, [service |-> tracker_service', pc |-> "start",
                                   left_asleep |-> FALSE])
    /\ tracker_thread' = Len(threads) + 1
    /\ is_tracking' = TRUE
    /\ UNCHANGED <<clock, activity_log, runVars, monitorVars, storeVars,
                   gui_pc, writes>>

\* toggle_tracking, lines 228-234, and TrackerThread.stop, lines 44-45:
\* TimeTrackerService.stop() is called and QThread.wait(3000) begins.
ToggleStop ==
    /\ gui_pc = "idle"
    /\ is_tracking
    /\ tracker_thread # 0
    /\ services' = [services EXCEPT ![threads[tracker_thread].service] =
                        [running |-> FALSE, stopped |-> TRUE]]
    /\ gui_pc' = "wait"
    /\ UNCHANGED <<clock, activity_log, runVars, monitorVars, storeVars,
                   is_tracking,
                   tracker_service, tracker_thread, threads, writes>>

\* wait(3000) returns, the thread having finished or the three seconds having
\* passed; lines 235-238.  A thread that has not finished goes on running;
\* left_asleep keeps whether it was in time.sleep(5) then (history).
WaitReturns ==
    /\ gui_pc = "wait"
    /\ threads' = [threads EXCEPT ![tracker_thread].left_asleep =
                       (threads[tracker_thread].pc = "sleep")]
    /\ tracker_thread' = 0
    /\ is_tracking' = FALSE
    /\ gui_pc' = "idle"
    /\ UNCHANGED <<clock, activity_log, runVars, monitorVars, storeVars,
                   tracker_service,
                   services, writes>>

\* Line 235 drops the reference to a QThread that is still running: if the
\* object is destroyed by it, Qt aborts the process.
WaitThenDestroyed ==
    /\ gui_pc = "wait"
    /\ threads[tracker_thread].pc # "done"
    /\ gui_pc' = "aborted"
    /\ tracker_thread' = 0
    /\ threads' = [t \in 1..Len(threads) |->
                     IF threads[t].pc = "done" THEN threads[t]
                     ELSE [threads[t] EXCEPT !.pc = "killed"]]
    /\ UNCHANGED <<clock, activity_log, runVars, monitorVars, storeVars,
                   is_tracking,
                   tracker_service, services, writes>>

\* TrackerThread.run -> TimeTrackerService.run, lines 70-84: self.running =
\* True, then the seeding observation of a new service, which writes no row.
TRun(t) ==
    /\ t <= Len(threads)
    /\ threads[t].pc = "start"
    /\ services' = [services EXCEPT ![threads[t].service].running = TRUE]
    /\ threads' = [threads EXCEPT ![t].pc = "loop_test"]
    /\ UNCHANGED <<clock, activity_log, runVars, monitorVars, storeVars,
                   is_tracking,
                   tracker_service, tracker_thread, gui_pc, writes>>

\* Line 87: while self.running.
TLoopTest(t) ==
    /\ t <= Len(threads)
    /\ threads[t].pc = "loop_test"
    /\ threads' = [threads EXCEPT ![t].pc =
                      IF services[threads[t].service].running
                      THEN "observe" ELSE "finally"]
    /\ UNCHANGED <<clock, activity_log, runVars, monitorVars, storeVars,
                   is_tracking,
                   tracker_service, tracker_thread, gui_pc, services, writes>>

\* Lines 88-95: the observation and, for a change, _update_activity, which
\* calls log_activity when a row is due.
TObserve(t, due) ==
    /\ t <= Len(threads)
    /\ threads[t].pc = "observe"
    /\ due => Len(writes) < MaxWrites
    /\ writes' = IF due THEN Append(writes, t) ELSE writes
    /\ threads' = [threads EXCEPT ![t].pc = "sleep"]
    /\ UNCHANGED <<clock, activity_log, runVars, monitorVars, storeVars,
                   is_tracking,
                   tracker_service, tracker_thread, gui_pc, services>>

\* Lines 101-102: an exception ends the loop.
TObserveRaises(t) ==
    /\ t <= Len(threads)
    /\ threads[t].pc = "observe"
    /\ threads' = [threads EXCEPT ![t].pc = "finally"]
    /\ UNCHANGED <<clock, activity_log, runVars, monitorVars, storeVars,
                   is_tracking,
                   tracker_service, tracker_thread, gui_pc, services, writes>>

\* Line 98: time.sleep(check_interval) returns.
TWake(t) ==
    /\ t <= Len(threads)
    /\ threads[t].pc = "sleep"
    /\ threads' = [threads EXCEPT ![t].pc = "loop_test"]
    /\ UNCHANGED <<clock, activity_log, runVars, monitorVars, storeVars,
                   is_tracking,
                   tracker_service, tracker_thread, gui_pc, services, writes>>

\* Lines 103-114: the finally block; the flush is guarded by self.running.
TFinally(t, due) ==
    /\ t <= Len(threads)
    /\ threads[t].pc = "finally"
    /\ due => Len(writes) < MaxWrites
    /\ writes' = IF services[threads[t].service].running /\ due
                 THEN Append(writes, t) ELSE writes
    /\ services' = [services EXCEPT ![threads[t].service].running = FALSE]
    /\ threads' = [threads EXCEPT ![t].pc = "done"]
    /\ UNCHANGED <<clock, activity_log, runVars, monitorVars, storeVars,
                   is_tracking,
                   tracker_service, tracker_thread, gui_pc>>

\* The window has been constructed; nothing has been started.
GuiInit ==
    /\ ServiceConstructed
    /\ MonitorIdle
    /\ StoreReady
    /\ GuiConstructed
    /\ clock = 1
    /\ frontend = "gui"
    /\ activity_log = <<>>

GuiNext ==
    \/ ToggleStart
    \/ ToggleStop
    \/ WaitReturns
    \/ WaitThenDestroyed
    \/ \E t \in 1..MaxStarts :
        \/ TRun(t)
        \/ TLoopTest(t)
        \/ \E due \in BOOLEAN : TObserve(t, due)
        \/ TObserveRaises(t)
        \/ TWake(t)
        \/ \E due \in BOOLEAN : TFinally(t, due)

GuiSpec == GuiInit /\ [][GuiNext]_vars

\* Thread t is executing run().
Live(t) == threads[t].pc \notin {"done", "killed"}

\* Thread t was in time.sleep(5) when the three seconds of wait(3000) were
\* over, and the GUI gave it up.
AbandonedAsleep(t) == threads[t].left_asleep

(***************************************************************************)
(* The observer (src/core/activity_monitor.py): get_active_window_info     *)
(* reads the OS identity, enters the backend of that platform, and the     *)
(* backend imports its bindings, asks the window system and handles what   *)
(* is raised.  What the bindings do is the environment's choice.           *)
(***************************************************************************)
\* Python's "sub in s" for strings.
Contains(s, sub) ==
    \E i \in 1..(Len(s) - Len(sub) + 1) : SubSeq(s, i, i + Len(sub) - 1) = sub

\* The dispatcher with a mutation: the last branch is taken without a test.
BackendFor_Mutant(os) ==
    IF Contains(os, OsWindows) THEN "windows"
    ELSE IF Contains(os, OsDarwin) THEN "macos"
    ELSE "linux"

\* Lines 178-186: the backend get_active_window_info calls for an identity.
BackendFor(os) ==
    IF Contains(os, OsWindows) THEN "windows"
    ELSE IF Contains(os, OsDarwin) THEN "macos"
    ELSE IF Contains(os, OsLinux) THEN "linux"
    ELSE "none"

\* utils.get_os: the same tests, naming the platform.
get_os(os) ==
    IF Contains(os, OsWindows) THEN "windows"
    ELSE IF Contains(os, OsDarwin) THEN "macos"
    ELSE IF Contains(os, OsLinux) THEN "linux"
    ELSE "unknown"

\* str(e) of the exception a handler has caught.
StrE == "<str(e)>"

\* What a backend returns when nothing is raised: lines 18 and 29 (windows),
\* 51, 68, 70 and 96 (macos), 120, 124 and 163 (linux).
BackendResults(b) ==
    IF b = "windows"
    THEN { <<None, None>>, <<"editor.exe", "file.txt">>,
           <<"Unknown", "file.txt">> }
    ELSE IF b = "macos"
    THEN { <<"Unknown", "No windows found">>,
           <<"Editor", "No window title available (no Layer 0 windows)">>,
           <<"Unknown", "No active application detected">>,
           <<"Editor", "file.txt">>, <<"Editor", "Editor Window">> }
    ELSE { <<"Unknown", "No active window (X11 ID)">>,
           <<"Unknown", "No active window (X11 obj)">>,
           <<"editor", "file.txt">>, <<"Unknown", "file.txt">>,
           <<"editor", "N/A (Title not found)">> }

\* What the calls of a backend's try block can raise once the imports are
\* done: any exception, on linux those of the X connection among them.
BackendExceptions(b) ==
    IF b = "linux" THEN {"Exception", "DisplayError"} ELSE {"Exception"}

\* Lines 32, 101, 166: the pair returned by "except ImportError".
ImportSentinel(b) ==
    IF b = "windows" THEN <<"Error: pywin32 not installed", "N/A">>
    ELSE IF b = "macos" THEN <<"Error: pyobjc import failed", "N/A">>
    ELSE <<"Error: python-xlib not installed", "N/A">>

\* Line 176: a call begins and reads the OS identity.
GetActiveWindowInfo ==
    /\ mon_pc \in {"idle", "returned", "raised"}
    /\ mon_calls < MaxCalls
    /\ mon_pc' = "dispatch"
    /\ backend' = "none"
    /\ display_bound' = FALSE
    /\ pending' = "none"
    /\ mon_result' = NoObservation
    /\ mon_calls' = mon_calls + 1
    /\ UNCHANGED <<clock, activity_log, runVars, storeVars, guiVars, os_type,
                   xlib_names>>

\* Lines 178-186: the backend is entered, or the call returns at line 186.
Dispatch ==
    /\ mon_pc = "dispatch"
    /\ IF BackendFor(os_type) = "none"
       THEN /\ mon_result' = <<"Unsupported OS", "N/A">>
            /\ mon_pc' = "returned"
            /\ UNCHANGED backend
       ELSE /\ backend' = BackendFor(os_type)
            /\ mon_pc' = "import"
            /\ UNCHANGED mon_result
    /\ UNCHANGED <<clock, activity_log, runVars, storeVars, guiVars, os_type,
                   xlib_names, display_bound, pending, mon_calls>>

\* Lines 13-14, 40-41, 109: the import statements at the head of the try
\* block.  They succeed, or raise ImportError (the package is not there), or
\* raise something else while the package's modules are executed; the
\* names they would bind are bound only when they succeed.
BackendImport(outcome) ==
    /\ mon_pc = "import"
    /\ IF outcome = "ok"
       THEN /\ mon_pc' = "body"
            /\ display_bound' = (backend = "linux")
            /\ UNCHANGED pending
       ELSE /\ mon_pc' = "handlers"
            /\ pending' = outcome
            /\ UNCHANGED display_bound
    /\ UNCHANGED <<clock, activity_log, runVars, storeVars, guiVars, os_type,
                   xlib_names, backend, mon_result, mon_calls>>

\* The try block runs to one of its return statements.
BackendReturns(r) ==
    /\ mon_pc = "body"
    /\ r \in BackendResults(backend)
    /\ mon_result' = r
    /\ mon_pc' = "returned"
    /\ UNCHANGED <<clock, activity_log, runVars, storeVars, guiVars, os_type,
                   xlib_names, backend, display_bound, pending, mon_calls>>

\* A call of the try block raises.
BackendRaises(e) ==
    /\ mon_pc = "body"
    /\ e \in BackendExceptions(backend)
    /\ pending' = e
    /\ mon_pc' = "handlers"
    /\ UNCHANGED <<clock, activity_log, runVars, storeVars, guiVars, os_type,
                   xlib_names, backend, display_bound, mon_result, mon_calls>>

\* Lines 30-35, 98-104, 164-172: the except clauses, tried in order.  The
\* expression of a clause is evaluated when the clause is tried: line 167
\* reads the local name display (UnboundLocalError when line 109 has not
\* bound it) and two attributes of it (AttributeError when Xlib.display does
\* not have them), and what is raised there leaves the function.
ExceptClauses ==
    /\ mon_pc = "handlers"
    /\ IF pending = "ImportError"
       THEN /\ mon_result' = ImportSentinel(backend)
            /\ mon_pc' = "returned"
            /\ UNCHANGED pending
       ELSE IF backend = "linux" /\ ~display_bound
       THEN /\ pending' = "UnboundLocalError"
            /\ mon_pc' = "raised"
            /\ UNCHANGED mon_result
       ELSE IF backend = "linux" /\ ~xlib_names
       THEN /\ pending' = "AttributeError"
            /\ mon_pc' = "raised"
            /\ UNCHANGED mon_result
       ELSE IF backend = "linux" /\ pending = "DisplayError"
       THEN /\ mon_result' = <<"Error: X11 display issue", StrE>>
            /\ mon_pc' = "returned"
            /\ UNCHANGED pending
       ELSE /\ mon_result' = <<"Error", StrE>>
            /\ mon_pc' = "returned"
            /\ UNCHANGED pending
    /\ UNCHANGED <<clock, activity_log, runVars, storeVars, guiVars, os_type,
                   xlib_names, backend, display_bound, mon_calls>>

\* A host of any identity, with any python-xlib, and no call made yet.
MonitorInit ==
    /\ ServiceConstructed
    /\ StoreReady
    /\ GuiConstructed
    /\ clock = 1
    /\ frontend = "cli"
    /\ activity_log = <<>>
    /\ os_type \in OsIdentities
    /\ xlib_names \in BOOLEAN
    /\ mon_pc = "idle"
    /\ backend = "none"
    /\ display_bound = FALSE
    /\ pending = "none"
    /\ mon_result = NoObservation
    /\ mon_calls = 0

MonitorNext ==
    \/ GetActiveWindowInfo
    \/ Dispatch
    \/ \E outcome \in {"ok", "ImportError", "Exception"} :
        BackendImport(outcome)
    \/ \E r \in BackendResults(backend) : BackendReturns(r)
    \/ \E e \in BackendExceptions(backend) : BackendRaises(e)
    \/ ExceptClauses

MonitorSpec == MonitorInit /\ [][MonitorNext]_vars

(***************************************************************************)
(* Claims.                                                                 *)
(***************************************************************************)
LastSeg == segs[Len(segs)]

SegDuration(sg) == IntSeconds(sg.closed, sg.start)

\* C1: when stop() ends the loop while a segment is open whose elapsed time
\* floor(now - started_at) is > 0, exactly one final row for that segment has
\* been persisted when run() returns.
C1_StopFlushesFinalSegment ==
    (pc = "returned" /\ loop_exit = "stop" /\ segs # <<>>
        /\ SegDuration(LastSeg) > 0)
    => LastSeg.rows = 1

\* C2: the scenario (Editor,file.txt)@t0, (Editor,file.txt)@t0+5s,
\* (Browser,tab)@t0+12s, stop at t0+20s leaves exactly the two rows
\* (Editor,file.txt,12) and (Browser,tab,8), in this order.
C2_ScenarioLeavesTwoRows ==
    pc = "returned"
    => RowsWritten = << <<"Editor", "file.txt", 12>>, <<"Browser", "tab", 8>> >>

\* C3: every segment the engine opened and closed with duration > 0 has exactly
\* one row, whichever way it was closed (transition, stop(), KeyboardInterrupt,
\* exception).  Stated for the runs in which no log_activity call has raised,
\* so that a missing row is never one the store refused.
C3_ClosedSegmentHasExactlyOneRow ==
    (pc # "raised" /\ loop_exit # "store_error")
    => \A i \in 1..Len(segs) :
           (segs[i].closed # NoTime /\ SegDuration(segs[i]) > 0)
           => segs[i].rows = 1

\* C4: every row written by the engine has duration_seconds >= 1, and a segment
\* whose computed duration int(close_time - started_at) is 0 has no row.
C4_NoZeroDurationRow ==
    /\ \A i \in 1..Len(EngineRows) : EngineRows[i].duration_seconds >= 1
    /\ \A i \in 1..Len(segs) :
        (segs[i].closed # NoTime /\ SegDuration(segs[i]) = 0)
        => segs[i].rows = 0

\* C4's case: a segment was closed with a computed duration of 0 and got no row,
\* after another one was persisted.
C4_Witness ==
    /\ EngineRows # <<>>
    /\ \E i \in 1..Len(segs) :
        segs[i].closed # NoTime /\ SegDuration(segs[i]) = 0 /\ segs[i].rows = 0
    /\ \E i \in 1..Len(segs) : segs[i].rows = 1

C6_StoreFailureDoesNotEndLoop ==
    loop_exit # "store_error"

\* C7: when log_activity raises inside _update_activity(app, title), the open
\* segment is nevertheless replaced by (app, title) with started_at = now.
C7_NewSegmentEstablishedOnStoreFailure ==
    [][(pc = "ua_log" /\ loop_exit = "none" /\ loop_exit' = "store_error")
        => /\ last_app_name' = OrDefault(ua_app, "UnknownApp")
           /\ last_window_title' = OrDefault(ua_title, "UnknownTitle")
           /\ current_activity_start_time' = current_time]_vars

\* C8: an exception raised inside one iteration of the loop (by the observer or
\* by the engine update) is caught and the loop continues with the next
\* interval: no such exception ends the loop.
C8_FailingTickDoesNotEndLoop ==
    [][(phase = "loop" /\ loop_exit' \in {"observer_error", "store_error"})
        => pc' = "sleep"]_vars

\* The seeding observation had app_name null, or the observer raised.
SeedFailed == polls = 1 /\ (obs[1] = None \/ obs = NoObservation)

\* C9: if the first observation of run() has app_name null, or the observer
\* raises during it, run() does not fail; when the seeding step is over the open
\* segment is "Startup" with started_at = the time read by that step, and the
\* step has persisted nothing.
C9_StartupSegmentOnFailedSeed ==
    SeedFailed =>
        /\ (pc = "raised" => interrupted)
        /\ (phase \in {"init", "init_except"} \/ pc = "loop_test")
            => /\ EngineRows = <<>>
               /\ \A i \in 1..Len(segs) : segs[i].rows = 0
        /\ pc = "loop_test"
            => /\ last_app_name = "Startup"
               /\ last_window_title \in
                     {"Initializing service", "Initialization error"}
               /\ Len(segs) = 1
               /\ segs[1].start = current_activity_start_time
               /\ segs[1].closed = NoTime
               /\ Truthy(current_activity_start_time)
               /\ current_activity_start_time <= clock

\* C9's case: the seeding step is over after a null observation, and after an
\* observer error.
C9_Witness ==
    /\ SeedFailed
    /\ pc = "loop_test"
    /\ obs[1] = None
    /\ last_app_name = "Startup"

\* C10: a degraded observation (app_name null) made while the open segment is
\* already "Unknown/Error" writes no row, opens no segment and keeps the
\* segment's started_at: the loop goes straight to its sleep.
C10_DegradedWhileDegradedIsNoOp ==
    [][(pc = "loop_observe" /\ last_app_name = "Unknown/Error"
            /\ polls' = polls + 1 /\ obs'[1] = None /\ pc' # "finally")
        => /\ pc' = "sleep"
           /\ UNCHANGED <<activity_log, last_app_name, last_window_title,
                          current_activity_start_time, segs>>]_vars

\* C10's case: the third observation was degraded like the second, and the
\* sentinel segment opened by the second is still the open one.
C10_Witness ==
    /\ pc = "sleep"
    /\ polls = 3
    /\ obs[1] = None
    /\ repeated
    /\ last_app_name = "Unknown/Error"
    /\ Len(segs) = 2
    /\ segs[2].closed = NoTime

\* C11: within one run(), every segment opened by a transition starts at the
\* very clock reading at which the segment before it was closed, and the row
\* written for that earlier segment carries int(that reading - its start): the
\* consecutive segments of a session neither overlap nor leave a gap.
C11_SegmentsAreContiguous ==
    \A i \in 1..(Len(segs) - 1) :
        /\ segs[i + 1].start = segs[i].closed
        /\ segs[i].rows <= 1
        /\ segs[i].rows = 1
            => segs[i].logged = IntSeconds(segs[i + 1].start, segs[i].start)
        /\ segs[i].rows = 0
            => IntSeconds(segs[i + 1].start, segs[i].start) = 0

\* C11's case: two transitions have each closed a segment with a row and the
\* third segment runs, time having passed since it was opened.
C11_Witness ==
    /\ Len(segs) = 3
    /\ segs[1].rows = 1
    /\ segs[2].rows = 1
    /\ segs[2].start > segs[1].start
    /\ segs[3].start = segs[2].closed
    /\ clock > segs[3].start

\* C12: once stop() has been called on a service whose tracker thread was
\* started, the request is never lost: self.running stays False from then on,
\* so the loop ends at its next test and run() returns.
C12_StopRequestIsNeverLost ==
    stop_called => ~running

\* C13: when KeyboardInterrupt ends the loop of run() while a segment is open,
\* that segment has exactly one row when run() returns if
\* int(now - started_at) > 0, and no row if it is 0.
C13_InterruptFlushesExactlyOnce ==
    (pc = "returned" /\ loop_exit = "KeyboardInterrupt" /\ segs # <<>>)
    => LastSeg.rows = (IF SegDuration(LastSeg) > 0 THEN 1 ELSE 0)

\* C14: after run() has gone through its shutdown the engine holds no open
\* segment: last_app_name, last_window_title and current_activity_start_time
\* are cleared.
C14_ShutdownClearsSegment ==
    pc = "returned"
    => /\ last_app_name = None
       /\ last_window_title = None
       /\ current_activity_start_time = NoTime

C16_StoppedLoopWritesNothingBesideNewLoop ==
    [][Len(writes') > Len(writes)
        => ~ (/\ services[threads[writes'[Len(writes')]].service].stopped
              /\ AbandonedAsleep(writes'[Len(writes')])
              /\ Len(threads) > writes'[Len(writes')])]_vars

\* C17: get_activity_summary(limit=N), N >= 0, returns at most N rows on any
\* store content, and no returned row was recorded earlier than the row that
\* follows it (rows recorded within the same second follow one another).
C17_SummaryIsLimitedAndNewestFirst ==
    (Returned /\ call.date = NoDate)
    => /\ Len(call.result) <= call.limit
       /\ \A i \in 1..(Len(call.selected) - 1) :
            RowOfId(call.selected[i]).timestamp
                >= RowOfId(call.selected[i + 1]).timestamp

\* C17's case: the limit cuts the result short of the table, and the rows
\* returned were recorded at different times.
C17_Witness ==
    /\ Returned
    /\ call.date = NoDate
    /\ call.limit = 2
    /\ Len(activity_log) = 3
    /\ Len(call.result) = 2
    /\ RowOfId(call.selected[1]).timestamp > RowOfId(call.selected[2]).timestamp

\* C17 as stated: each returned row has a recorded timestamp strictly later
\* than the row that follows it.
C17_SummaryIsStrictlyOrdered ==
    (Returned /\ call.date = NoDate)
    => \A i \in 1..(Len(call.selected) - 1) :
            RowOfId(call.selected[i]).timestamp
                > RowOfId(call.selected[i + 1]).timestamp

\* C18: get_activity_summary(limit=N, date=D) returns only rows whose stored
\* timestamp plus 8 hours falls on day D; a row stored at 2024-02-29 16:30:00
\* is returned for D = 2024-03-01 (when N does not cut it off) and is not
\* returned for D = 2024-02-29.
C18_DateFilterUsesLocalDay ==
    (Returned /\ call.date # NoDate)
    => /\ \A i \in 1..Len(call.selected) :
            DateOfSeconds(RowOfId(call.selected[i]).timestamp + 8 * 3600)
                = call.date
       /\ \A n \in 1..Len(activity_log) :
            activity_log[n].timestamp = At(1, 16, 30, 0)
            => /\ (call.date = [year |-> 2024, month |-> 3, day |-> 1]
                      /\ Len(call.result) < call.limit)
                  => \E i \in 1..Len(call.selected) :
                        call.selected[i] = activity_log[n].id
               /\ call.date = [year |-> 2024, month |-> 2, day |-> 29]
                  => \A i \in 1..Len(call.selected) :
                        call.selected[i] # activity_log[n].id

\* C18's case: the query for 2024-03-01 returns the row stored at
\* 2024-02-29 16:30:00 and leaves out one stored at 2024-02-29 15:59:59.
C18_Witness ==
    /\ Returned
    /\ call.date = [year |-> 2024, month |-> 3, day |-> 1]
    /\ \E i \in 1..Len(call.selected) :
        RowOfId(call.selected[i]).timestamp = At(1, 16, 30, 0)
    /\ \E n \in 1..Len(activity_log) :
        /\ activity_log[n].timestamp = At(1, 15, 59, 59)
        /\ \A i \in 1..Len(call.selected) :
            call.selected[i] # activity_log[n].id
    /\ Len(call.result) < call.limit

\* C19: for every row returned by get_activity_summary(limit, date=D), the
\* timestamp emitted is the stored timestamp plus 8 hours, and the calendar
\* day of the emitted timestamp is D.
C19_EmittedTimestampAgreesWithFilter ==
    (Returned /\ call.date # NoDate)
    => \A i \in 1..Len(call.result) :
        /\ call.result[i].timestamp
               = RowOfId(call.selected[i]).timestamp + 8 * 3600
        /\ DateOfSeconds(call.result[i].timestamp) = call.date

\* C19's case: a row stored at 2024-03-01 16:00:00 is returned for
\* D = 2024-03-02 with the timestamp 2024-03-02 00:00:00.
C19_Witness ==
    /\ Returned
    /\ call.date = [year |-> 2024, month |-> 3, day |-> 2]
    /\ \E i \in 1..Len(call.result) :
        /\ RowOfId(call.selected[i]).timestamp = At(2, 16, 0, 0)
        /\ call.result[i].timestamp = At(3, 0, 0, 0)

\* C20: init_db creates activity_log and app_categories when they are absent,
\* and a call made when they exist leaves the schema and every row unchanged.
C20_InitDbIsIdempotent ==
    [][call'.op = "init_db"
        => /\ db_dir'
           /\ AllTables \subseteq tables'
           /\ tables \subseteq tables'
           /\ AllTables \subseteq tables => tables' = tables
           /\ activity_log' = activity_log]_vars

\* C20's case: init_db has just been called on a database whose table held
\* rows, recorded since an earlier call had created it.
C20_Witness ==
    /\ call.op = "init_db"
    /\ Len(activity_log) >= 2
    /\ activity_log[1].activity_type = "general"
    /\ tables = AllTables


(***************************************************************************)
(* The store and the engine, claims C21 and C22.                           *)
(***************************************************************************)
\* The row a step has appended (the last row of the table after the step).
Appended == activity_log'[Len(activity_log')]

\* The step leaves every row as it was and adds one with a larger id.
AppendsOneRow ==
    /\ Len(activity_log') = Len(activity_log) + 1
    /\ SubSeq(activity_log', 1, Len(activity_log)) = activity_log
    /\ \A i \in 1..Len(activity_log) : Appended.id > activity_log[i].id

\* The step is a call of data_store (the other step of the store's clients,
\* the passing of time, leaves the record of the last call as it is).
StoreCall == clock' = clock

\* C21: the activity log is append-only.  A log_activity that returns has
\* added exactly one row, with an id larger than every id of the table, and
\* left the rows that were there unchanged; init_db and get_activity_summary
\* leave the table as it is; and no step at all (of the store's clients or of
\* the engine, which writes through log_activity only) changes or removes a row.
C21_ActivityLogIsAppendOnly ==
    [][ /\ activity_log' = activity_log \/ AppendsOneRow
        /\ (StoreCall /\ call'.op = "log_activity" /\ ~call'.raised) =>
               AppendsOneRow
        /\ (StoreCall /\ call'.op \in {"init_db", "get_activity_summary"}) =>
               activity_log' = activity_log ]_vars

\* log_activity has added a row to a table that had rows, and init_db and a
\* query have then been run on it.
C21_Witness ==
    /\ Len(activity_log) >= 2
    /\ \A i \in 1..Len(activity_log) - 1 :
           activity_log[i].id < activity_log[Len(activity_log)].id
    /\ call.op \in {"init_db", "get_activity_summary"}
    /\ ~call.raised


\* C22: every row the engine has written carries the activity_type of its
\* segment: "Unknown/Error" for a segment of failed observations, "Startup"
\* for the bootstrap segment, and "general" for any other.
C22_SyntheticRowsCarryReservedType ==
    \A i \in 1..Len(activity_log) :
        activity_log[i] # LegacyRow =>
            activity_log[i].activity_type =
                IF activity_log[i].app_name \in {"Unknown/Error", "Startup"}
                THEN activity_log[i].app_name
                ELSE "general"


(***************************************************************************)
(* The observer, claims C23 and C24.                                       *)
(***************************************************************************)
\* C23: get_active_window_info never raises to its caller, whatever the OS
\* identity and whatever fails in the platform bindings; when the import of
\* the bindings or a call of the backend has failed, the pair it returns has
\* an app name of the "Error" class.  (Stated for a python-xlib whose display
\* module has the names line 167 reads; with one that lacks them, every
\* exception of the linux backend but ImportError leaves the function too.)
C23_ObserverNeverRaises ==
    xlib_names =>
        /\ mon_pc # "raised"
        /\ (mon_pc = "returned" /\ pending # "none") =>
               mon_result[1] \in {"Error", "Error: pywin32 not installed",
                                  "Error: pyobjc import failed",
                                  "Error: python-xlib not installed",
                                  "Error: X11 display issue"}

\* C24: on a host whose OS identity contains none of "windows", "darwin"
\* and "linux", every call of get_active_window_info returns exactly
\* ("Unsupported OS", "N/A") and enters no platform backend (and utils.get_os
\* names the platform "unknown").
C24_UnsupportedOsGetsSentinel ==
    os_type \in {OsFreeBsd, OsJava, OsCygwin, OsSunOs, <<>>} =>
        /\ get_os(os_type) = "unknown"
        /\ backend = "none"
        /\ mon_pc \in {"idle", "dispatch", "returned"}
        /\ mon_pc = "returned" => mon_result = <<"Unsupported OS", "N/A">>

\* The second call on a Cygwin host has returned.
C24_Witness ==
    /\ os_type = OsCygwin
    /\ mon_calls = MaxCalls
    /\ mon_pc = "returned"
    /\ mon_result = <<"Unsupported OS", "N/A">>


C26_UnchangedPollIsNoOp ==
    [][ /\ (pc = "loop_observe" /\ polls' # polls /\ pc' # "finally"
              /\ obs' = <<last_app_name, last_window_title>>)
           => /\ pc' = "sleep"
              /\ segs' = segs
              /\ UNCHANGED <<last_app_name, last_window_title,
                             current_activity_start_time, activity_log>>
        /\ (Len(activity_log') > Len(activity_log))
           => Appended.duration_seconds =
                  IntSeconds(IF pc = "ua_log" THEN current_time ELSE clock,
                             LastSeg.start) ]_vars

\* Two polls in a row found the open segment unchanged, and the segment was
\* then flushed with the seconds passed since it was opened.
C26_Witness ==
    /\ polls >= 3
    /\ repeated
    /\ obs = <<last_app_name, last_window_title>>
    /\ Len(segs) = 1
    /\ pc = "finally_stop"
    /\ activity_log # <<>>
    /\ activity_log[Len(activity_log)].app_name = obs[1]
    /\ activity_log[Len(activity_log)].duration_seconds >= 1
    /\ activity_log[Len(activity_log)].duration_seconds =
           IntSeconds(clock, segs[1].start)


\* C27: a run of consecutive degraded observations (app_name null) that
\* follows a normal segment: its first observation closes that segment by
\* the change rule and opens the segment "Unknown/Error", the others leave
\* everything as it is, and the non-null observation that ends the run
\* yields exactly one row, with app_name "Unknown/Error" and the whole
\* seconds from the first degraded observation to the recovering one (no row
\* if that is less than a second).  The instants are the clock readings of
\* line 39, made when the two observations are processed.
C27_DegradedRunYieldsOneRow ==
    [][ /\ (pc = "loop_observe" /\ polls' # polls /\ pc' # "finally"
              /\ obs'[1] = None)
           => IF last_app_name # "Unknown/Error"
              THEN /\ pc' = "ua_time"
                   /\ ua_app' = "Unknown/Error"
              ELSE /\ pc' = "sleep"
                   /\ UNCHANGED <<activity_log, segs,
                                  current_activity_start_time>>
        /\ (phase = "loop" /\ pc = "ua_log" /\ pc' = "ua_set_app"
              /\ ua_app = "Unknown/Error")
           => IF IntSeconds(current_time, LastSeg.start) > 0
              THEN /\ AppendsOneRow
                   /\ Appended.app_name = LastSeg.app
                   /\ Appended.duration_seconds =
                          IntSeconds(current_time, LastSeg.start)
              ELSE activity_log' = activity_log
        /\ (phase = "loop" /\ pc = "ua_set_start" /\ pc' = "sleep"
              /\ ua_app = "Unknown/Error")
           => /\ LastSeg'.app = "Unknown/Error"
              /\ LastSeg'.start = current_time
              /\ LastSeg'.rows = 0
        /\ (phase = "loop" /\ pc = "ua_log" /\ pc' = "ua_set_app"
              /\ LastSeg.app = "Unknown/Error" /\ obs[1] # None)
           => IF IntSeconds(current_time, LastSeg.start) > 0
              THEN /\ AppendsOneRow
                   /\ Appended.app_name = "Unknown/Error"
                   /\ Appended.duration_seconds =
                          IntSeconds(current_time, LastSeg.start)
                   /\ LastSeg'.rows = 1
              ELSE /\ activity_log' = activity_log
                   /\ LastSeg'.rows = 0
        /\ (phase = "loop" /\ pc = "ua_set_start" /\ pc' = "sleep"
              /\ LastSeg.app = "Unknown/Error")
           => /\ obs[1] # None
              /\ LastSeg.rows =
                     IF IntSeconds(current_time, LastSeg.start) > 0
                     THEN 1 ELSE 0 ]_vars

\* A normal segment, then two degraded observations a sleep apart, then a
\* normal observation: the sentinel segment has got its one row.
C27_Witness ==
    /\ pc = "sleep"
    /\ polls = 4
    /\ obs[1] # None
    /\ Len(segs) = 3
    /\ segs[1].app = "Editor"
    /\ segs[2].app = "Unknown/Error"
    /\ segs[2].rows = 1
    /\ segs[2].logged >= 1
    /\ segs[2].logged = IntSeconds(segs[2].closed, segs[2].start)
    /\ activity_log[Len(activity_log)].app_name = "Unknown/Error"
    /\ activity_log[Len(activity_log)].duration_seconds = segs[2].logged


\* C28: every observation run() makes after the seeding one is preceded by
\* a sleep of the configured interval (time.sleep has been called and has
\* returned, not before that interval was over), and every wake-up goes to
\* the test of the stop flag before anything is observed.
C28_SleepPrecedesEveryLaterObservation ==
    [][ /\ (pc = "loop_observe" /\ polls' = polls + 1)
           => /\ wake_at # 0
              /\ clock >= wake_at
        /\ (pc = "sleep" /\ pc' \notin {"sleep", "finally"})
           => pc' = "loop_test" ]_vars


(***************************************************************************)
(* The store's query, claim C29.                                           *)
(***************************************************************************)
\* C29: get_activity_summary(limit=N, date=D), N >= 0, applies the limit
\* after the date filter.  With m rows of the table on local day D, it
\* returns min(N, m) different rows, all of day D, and none of the rows of
\* day D it leaves out was recorded later than one it returns (rows recorded
\* within the same second rank alike); the rows of other days, however
\* recent, take no place in the result.
C29_LimitAppliesAfterDateFilter ==
    (Returned /\ call.date # NoDate)
    => LET OnDay == { i \in 1..Len(activity_log) :
                        DateOfSeconds(activity_log[i].timestamp + 8 * 3600)
                            = call.date }
           Picked == { i \in 1..Len(activity_log) :
                        \E k \in 1..Len(call.selected) :
                            call.selected[k] = activity_log[i].id }
       IN  /\ Len(call.result) =
                  IF call.limit < Cardinality(OnDay)
                  THEN call.limit ELSE Cardinality(OnDay)
           /\ Cardinality(Picked) = Len(call.selected)
           /\ Len(call.selected) = Len(call.result)
           /\ Picked \subseteq OnDay
           /\ \A i \in Picked, j \in OnDay \ Picked :
                  activity_log[i].timestamp >= activity_log[j].timestamp

\* Two rows of 2024-03-01 and a later row of 2024-03-02: the query for
\* 2024-03-01 with limit 1 has returned the later of the two.
C29_Witness ==
    /\ Returned
    /\ call.date = [year |-> 2024, month |-> 3, day |-> 1]
    /\ call.limit = 1
    /\ Len(call.result) = 1
    /\ Len(activity_log) = 3
    /\ activity_log[1].timestamp = At(1, 16, 0, 0)
    /\ activity_log[2].timestamp = At(1, 16, 30, 0)
    /\ activity_log[3].timestamp = At(2, 16, 0, 0)
    /\ call.selected = <<activity_log[2].id>>


(***************************************************************************)
(* The end of run(), claim C30.                                            *)
(***************************************************************************)
\* C30: whenever run() has terminated, by returning or by letting an
\* exception escape (a failure of log_activity during the final flush
\* included), self.running is False.  Stated for the runs that no
\* KeyboardInterrupt was delivered to.
C30_TerminatedRunIsNotRunning ==
    (Terminated /\ ~interrupted) => ~running


(***************************************************************************)
(* The rows of one run(), claims C31 and C32.                              *)
(***************************************************************************)
\* The seconds carried by the rows run() has written (all rows but the one
\* an earlier session left).
RECURSIVE PersistedSeconds(_)
PersistedSeconds(log) ==
    IF log = <<>> THEN 0
    ELSE (IF log[1] = LegacyRow THEN 0 ELSE log[1].duration_seconds)
         + PersistedSeconds(Tail(log))

\* C31: at every moment of one run() on a freshly constructed service, the
\* durations of the rows it has persisted add up to no more than the time
\* passed since run() began, whatever is observed and wherever an interrupt
\* or a failure of the store arrives.  The time passed is at most the time
\* since the earliest instant at which a run begins (clock 1).
C31_PersistedTimeWithinElapsed ==
    PersistedSeconds(activity_log) * TicksPerSecond <= clock - 1


\* C32: no row written by the engine has a null app_name or window_title.
\* A null app_name or window_title handed to _update_activity is stored as
\* "UnknownApp" or "UnknownTitle" (a value that is not null is stored as it
\* is), and a row is written only while last_app_name is not None, with the
\* stored app_name and window_title.
C32_NoNullIdentityInRows ==
    /\ [](\A i \in 1..Len(activity_log) :
             activity_log[i] # LegacyRow =>
                 /\ activity_log[i].app_name # None
                 /\ activity_log[i].window_title # None)
    /\ [][ /\ (pc = "ua_set_app" /\ pc' = "ua_set_title")
              => last_app_name' =
                     IF ua_app = None THEN "UnknownApp" ELSE ua_app
           /\ (pc = "ua_set_title" /\ pc' = "ua_set_start")
              => last_window_title' =
                     IF ua_title = None THEN "UnknownTitle" ELSE ua_title
           /\ Len(activity_log') > Len(activity_log)
              => /\ last_app_name # None
                 /\ Appended.app_name = last_app_name
                 /\ Appended.window_title = last_window_title ]_vars

\* A window without a title was observed, and its segment has been written
\* with the title "UnknownTitle".
C32_Witness ==
    /\ obs = <<"Editor", None>>
    /\ activity_log # <<>>
    /\ activity_log[Len(activity_log)].app_name = "Editor"
    /\ activity_log[Len(activity_log)].window_title = "UnknownTitle"
    /\ activity_log[Len(activity_log)].duration_seconds >= 1

====
